---- MODULE Spec2Model ----
(***************************************************************************)
(* A model of the IndexedDB storage driver (StorageClient): the flat       *)
(* key-value store, the session promise, and the operations list,          *)
(* metadata, write, read and remove, each as the chain of engine callbacks *)
(* the driver registers.  Paths are sequences of one-character strings so  *)
(* that startsWith, indexOf, substring and localeCompare are computed as   *)
(* the driver computes them.                                               *)
(***************************************************************************)
EXTENDS Integers, Sequences, FiniteSets, TLC

\* ------------------------------------------------------------------ bounds
\* The largest number of records a store drawn by InitList holds.
MaxFiles == 3
\* The largest number of items (chunks or empty yields) a byte source emits.
MaxItems == 2

\* ------------------------------------------------------- program constants
M_FILE == "file"
M_DIR == "dir"
\* The number of empty yields write's pull loop tolerates.
NullLimit == 5

\* --------------------------------------------------------- strings, paths
SEP == "/"

\* The default ICU collation that localeCompare applies: punctuation sorts
\* before letters, and a letter's case matters only between equal letters.
Collate(c) == CASE c = "." -> 0 [] c = "/" -> 1 [] c = "a" -> 2 [] c = "B" -> 3 [] OTHER -> 4
Collation == [c \in {".", "/", "a", "B"} |-> Collate(c)]

\* The UTF-16 code unit of a character: the engine orders keys by it.
CodeUnit(c) == CASE c = "." -> 46 [] c = "/" -> 47 [] c = "B" -> 66 [] c = "a" -> 97 [] OTHER -> 122
CodeUnits == [c \in {".", "/", "a", "B"} |-> CodeUnit(c)]

MinOf(S) == CHOOSE x \in S : \A y \in S : x <= y

\* Three-way lexicographic comparison of two strings under a character rank.
Compare(rank, s, t) ==
    LET n == IF Len(s) < Len(t) THEN Len(s) ELSE Len(t)
        diffs == {i \in 1..n : s[i] # t[i]}
    IN IF diffs = {}
       THEN (IF Len(s) < Len(t) THEN -1 ELSE IF Len(s) > Len(t) THEN 1 ELSE 0)
       ELSE (IF rank[s[MinOf(diffs)]] < rank[t[MinOf(diffs)]] THEN -1 ELSE 1)

\* String.prototype.localeCompare.
localeCompare(s, t) == Compare(Collation, s, t)

\* The engine's key order.
KeyLess(s, t) == Compare(CodeUnits, s, t) < 0

\* String.prototype.startsWith / endsWith.
startsWith(s, pre) == Len(pre) <= Len(s) /\ SubSeq(s, 1, Len(pre)) = pre
endsWith(s, c) == Len(s) > 0 /\ s[Len(s)] = c

\* String.prototype.indexOf(c, from): a 0-based index, or -1.
indexOf(s, c, from) ==
    LET hits == {i \in from..(Len(s) - 1) : s[i + 1] = c}
    IN IF hits = {} THEN -1 ELSE MinOf(hits)

\* String.prototype.substring(0, end), end a 0-based exclusive index.
substring(s, end) == SubSeq(s, 1, end)

\* ------------------------------------------------------------ the records
\* null / undefined.
Null == [type |-> "null"]

\* The object write persists (mtime, a clock reading, is left out).
FileRecord(path, bytes) ==
    [type |-> M_FILE, bytes |-> bytes, name |-> path, size |-> Len(bytes)]

\* IDBObjectStore.getAll(): the records in key order.
RECURSIVE InKeyOrder(_, _)
InKeyOrder(keys, st) ==
    IF keys = {} THEN <<>>
    ELSE LET k == CHOOSE x \in keys : \A y \in keys : x = y \/ KeyLess(x, y)
         IN <<st[k]>> \o InKeyOrder(keys \ {k}, st)

getAll(st) == InKeyOrder(DOMAIN st, st)

\* A get that also answers undefined for a record with an empty payload.
getNonEmpty(st, key) == IF key \in DOMAIN st /\ st[key].bytes # <<>> THEN st[key] ELSE Null

\* A get that answers a record for every key, stored or not.
getAlways(st, key) == IF key \in DOMAIN st THEN st[key] ELSE FileRecord(key, <<>>)

\* IDBObjectStore.get(key): the record, or undefined.
get(st, key) == IF key \in DOMAIN st THEN st[key] ELSE Null

\* A delete that leaves the record stored.
deleteNothing(st, key) == st

\* A delete of the whole range of keys that begin as the key does.
deleteRange(st, key) == [k \in {n \in DOMAIN st : n[1] # key[1]} |-> st[k]]

\* IDBObjectStore.put(value, key) and delete(key).
put(st, value, key) == [k \in DOMAIN st \cup {key} |-> IF k = key THEN value ELSE st[k]]
delete(st, key) == [k \in DOMAIN st \ {key} |-> st[k]]

\* --------------------------------------------------- the namespace resolver
\* Array.prototype.sort with the localeCompare comparator (a stable insertion).
RECURSIVE sortByName(_)
sortByName(rs) ==
    IF rs = <<>> THEN <<>>
    ELSE LET rest == sortByName(Tail(rs))
             o == Head(rs)
             lower == {i \in 1..Len(rest) : localeCompare(rest[i].name, o.name) <= 0}
             n == Cardinality(lower)
         IN SubSeq(rest, 1, n) \o <<o>> \o SubSeq(rest, n + 1, Len(rest))

\* pth normalized to end with the separator.
normMatch(pth) == IF pth = <<>> THEN <<>> ELSE IF endsWith(pth, SEP) THEN pth ELSE pth \o <<SEP>>

\* The index at which the search for the next separator starts.
nextSlashFrom(pth) == Len(normMatch(pth)) + 1

\* A directory entry whose name keeps the separator.
dirWithSeparator(o, nextSlash) == [type |-> M_DIR, name |-> substring(o.name, nextSlash + 1)]

\* The synthesized directory entry.
dir(o, nextSlash) == [type |-> M_DIR, name |-> substring(o.name, nextSlash)]

\* A map callback that keeps every record below the path, at any depth.
mapEntryDeep(o, pth, recursive) == IF startsWith(o.name, pth) THEN o ELSE Null

\* The map callback: the record, a directory entry, or null.
mapEntry(o, pth, recursive) ==
    IF o.name = pth THEN o
    ELSE IF startsWith(o.name, pth)
    THEN IF recursive THEN o
         ELSE IF startsWith(o.name, normMatch(pth)) /\ Len(o.name) > Len(normMatch(pth))
              THEN LET nextSlash == indexOf(o.name, SEP, nextSlashFrom(pth))
                   IN IF nextSlash = -1 THEN o ELSE dir(o, nextSlash)
              ELSE Null
    ELSE Null

mapped(rs, pth, recursive) == [i \in 1..Len(rs) |-> mapEntry(rs[i], pth, recursive)]

\* Array.prototype.filter: the elements at the indices in keep, from i on.
RECURSIVE SelectIdx(_, _, _)
SelectIdx(s, keep, i) ==
    IF i > Len(s) THEN <<>>
    ELSE (IF i \in keep THEN <<s[i]>> ELSE <<>>) \o SelectIdx(s, keep, i + 1)

notNull(s) == SelectIdx(s, {i \in 1..Len(s) : s[i] # Null}, 1)

\* The de-duplication by name, which keeps an entry at its first index.
dedupe(s) ==
    SelectIdx(s, {i \in 1..Len(s) : i = MinOf({j \in 1..Len(s) : s[j].name = s[i].name})}, 1)

\* A resolver that leaves the scan's result in the engine's key order.
sortedNot(rs) == rs

\* The order in which the resolver processes the scan's result.
sorted(rs) == sortByName(rs)

\* `filtered`: sort, map, drop nulls, de-duplicate.
filtered(rs, pth, recursive) == dedupe(notNull(mapped(sorted(rs), pth, recursive)))

\* `foundExact`: the record whose name is pth, or null.
foundExact(rs, pth) ==
    IF \E i \in 1..Len(rs) : rs[i].name = pth
    THEN rs[CHOOSE i \in 1..Len(rs) : rs[i].name = pth]
    ELSE Null

\* A resolver without the short circuit.
shortCircuitNever(rs, pth, recursive) == FALSE

\* Whether the exact-match short circuit applies.
shortCircuit(rs, pth, recursive) == foundExact(rs, pth) # Null /\ ~recursive

\* What list resolves with.
listResult(rs, pth, recursive) ==
    IF shortCircuit(rs, pth, recursive) THEN <<foundExact(rs, pth)>> ELSE filtered(rs, pth, recursive)

\* A filter that lets the directory entries through.
filesAndDirs(s) == s

\* The entries of type file.
filesOf(s) == SelectIdx(s, {i \in 1..Len(s) : s[i].type = M_FILE}, 1)

\* A visit order that is the reverse of the listing's.
toVisitReversed(rs, pth, recursive) ==
    LET fs == IF shortCircuit(rs, pth, recursive) THEN <<foundExact(rs, pth)>>
              ELSE filesOf(filtered(rs, pth, recursive))
    IN [i \in 1..Len(fs) |-> fs[Len(fs) + 1 - i]]

\* The entries the visitor is called with, in order.
toVisit(rs, pth, recursive) ==
    IF shortCircuit(rs, pth, recursive) THEN <<foundExact(rs, pth)>>
    ELSE filesOf(filtered(rs, pth, recursive))

\* ------------------------------------------------------------ byte sources
\* An empty yield (undefined, null): what a pull or a data event may deliver
\* in place of a chunk.
Nil == [nil |-> TRUE]
Data(b) == [data |-> b]

\* The shapes of a source: which of its items are chunks and which are empty.
RECURSIVE Shapes(_)
Shapes(n) ==
    IF n = 0 THEN {<<>>}
    ELSE Shapes(n - 1) \cup
         {s \o <<x>> : s \in {t \in Shapes(n - 1) : Len(t) = n - 1}, x \in {"nil", "data"}}

\* The items of a shape: its k-th chunk is the one-byte buffer <<k>>.
itemsOf(shape) ==
    [i \in 1..Len(shape) |->
        IF shape[i] = "nil" THEN Nil
        ELSE Data(<<Cardinality({j \in 1..i : shape[j] = "data"})>>)]

\* A generator that yields three empty values before each of its two chunks.
GapShape == <<"nil", "nil", "nil", "data", "nil", "nil", "nil", "data">>

\* A push-style source (a readable stream: data events, then end or error)
\* or a pull-style one (a generator: items, then undefined for ever).
Sources ==
    {[style |-> st, items |-> itemsOf(sh), fin |-> f] :
        st \in {"push"}, sh \in Shapes(MaxItems), f \in {"end", "error"}}
    \cup {[style |-> "pull", items |-> itemsOf(sh), fin |-> "end"] :
             sh \in Shapes(MaxItems) \cup {GapShape}}

NoSource == [style |-> "none", items |-> <<>>, fin |-> "end"]

\* The bytes a source carries: its chunks, concatenated in order.
RECURSIVE Flatten(_)
Flatten(items) ==
    IF items = <<>> THEN <<>>
    ELSE (IF Head(items) = Nil THEN <<>> ELSE Head(items).data) \o Flatten(Tail(items))

\* Buffer.from(array): each element becomes one byte.
Buffer_from(bytes) == [i \in 1..Len(bytes) |-> bytes[i] % 256]

\* ------------------------------------------------------------------ state
VARIABLES
    store,      \* the object store rootStore: key -> record
    session,    \* the open request, the local `db` and dbPromise
    ops,        \* per caller: the operation in flight and its local variables
    tx,         \* the transaction the engine is running, if any
    before,     \* per caller: the store when its operation was called
    lastWrite   \* the path and bytes of the write that resolved last, until a
                \* write or a remove is called

vars == <<store, session, ops, tx, before, lastWrite>>

\* The callers: Solo alone issues one operation at a time.
Procs == {"c1", "c2"}
Solo == {"c1"}

\* The characters, and the paths the callers use.
P_a == <<"a">>
P_aS == <<"a", "/">>
P_aSa == <<"a", "/", "a">>
P_aSB == <<"a", "/", "B">>
P_aSBSa == <<"a", "/", "B", "/", "a">>
P_aSBS == <<"a", "/", "B", "/">>
P_aB == <<"a", "B">>
P_B == <<"B">>
P_BSa == <<"B", "/", "a">>
P_BS == <<"B", "/">>
P_aSSa == <<"a", "/", "/", "a">>
P_aD == <<"a", ".">>

\* The names InitList draws stores from, and the paths list is asked for.
FileNames == {P_a, P_aS, P_aSa, P_aSB, P_aSBSa, P_aB, P_B, P_BSa, P_aSSa, P_aD}
QueryPaths == FileNames \cup {<<>>, P_aSBS, P_BS}

\* The paths write is called with, and those the other operations are.
WritePaths == {P_a, P_aSa, P_aSBSa}
CallPaths == WritePaths \cup {<<>>, P_aS, P_aSB, P_B}

EmptyStore == [k \in {} |-> Null]

\* The stores a sequence of completed writes leaves behind.
StoreOf(names) == [k \in names |-> FileRecord(k, <<Len(k)>>)]
Stores == {StoreOf(ns) : ns \in {s \in SUBSET FileNames : Cardinality(s) <= MaxFiles}}

\* ------------------------------------------------------------- operations
NoValue == [none |-> TRUE]

\* list is called without a visitor, or with one of the caller's.
Visitors == {"none", "user"}
Ok(v) == [ok |-> v]
Err(kind, message) == [error |-> kind, what |-> message]

NoTx == [kind |-> "none", owner |-> "none"]

\* TLC keeps the fields of a record in the order in which their names first
\* occur in the module; the records of the model are written in that order.
\* `fault` notes an engine failure that is not a per-file outcome of remove:
\* the session ("session"), a call that threw ("throw"), the scan request
\* ("scan"), the request ("request") or the transaction ("tx") of metadata,
\* read or write.  `visited` lists the files for which remove has opened a
\* delete transaction, and `closed` counts those transactions that are over;
\* `calls` lists the entries the visitor has been called with, and `returned`
\* counts the calls whose promise has resolved; `trace` lists the callbacks
\* read has called, in order, and `endCallback` tells whether read was given one.
NewOp(kind, path, recursive, quiet, visitor, src) ==
    [path |-> path, bytes |-> <<>>, value |-> NoValue, recursive |-> recursive,
     data |-> Null, kind |-> kind, quiet |-> quiet, visitor |-> visitor, src |-> src,
     pc |-> "mdb", outcome |-> "pending", pos |-> 0, nullCount |-> 0,
     bytesRead |-> 0, notFound |-> Null, chunks |-> <<>>, ends |-> 0,
     scan |-> <<>>, queue |-> <<>>, file |-> Null, deleteResult |-> Null,
     deleteErrors |-> <<>>, deletedFiles |-> <<>>, fault |-> "none",
     visited |-> <<>>, closed |-> 0, calls |-> <<>>, returned |-> 0,
     trace |-> <<>>, endCallback |-> FALSE]

IdleOp == [NewOp("idle", <<>>, FALSE, FALSE, "none", NoSource) EXCEPT !.pc = "idle"]

\* A promise settles once: a later resolve or reject changes nothing.
resolve(o, v) == IF o.outcome = "pending" THEN [o EXCEPT !.outcome = "resolved", !.value = Ok(v)] ELSE o
reject(o, e) == IF o.outcome = "pending" THEN [o EXCEPT !.outcome = "rejected", !.value = e] ELSE o

\* The state after construction: indexedDB.open has been called once and the
\* request is pending, on a database that is new or that an earlier client
\* already created.  `opens` counts the calls of indexedDB.open, `upgrades`
\* the runs of onupgradeneeded, and `given` holds the connections (numbered
\* by the open that made them) that mdb has returned.
Init ==
    /\ store = EmptyStore
    /\ session \in {[existing |-> e, phase |-> "pending", db |-> FALSE,
                     promise |-> "pending", reason |-> NoValue,
                     opens |-> 1, upgrades |-> 0, given |-> {}] : e \in BOOLEAN}
    /\ ops = [p \in Procs |-> IdleOp]
    /\ tx = NoTx
    /\ before = [p \in Procs |-> EmptyStore]
    /\ lastWrite = Null

\* A client whose session is established, on a store earlier writes filled.
InitList ==
    /\ store \in Stores
    /\ session = [existing |-> FALSE, phase |-> "done", db |-> TRUE,
                  promise |-> "resolved", reason |-> NoValue,
                  opens |-> 1, upgrades |-> 1, given |-> {}]
    /\ ops = [p \in Procs |-> IdleOp]
    /\ tx = NoTx
    /\ before = [p \in Procs |-> store]
    /\ lastWrite = Null

\* ---------------------------------------------------------------- session
\* openOrCreateDB.onupgradeneeded: a new database; db is set, the store created.
onupgradeneeded ==
    /\ session.phase = "pending" /\ ~session.existing
    /\ session' = [session EXCEPT !.phase = "upgraded", !.db = TRUE, !.upgrades = @ + 1]
    /\ UNCHANGED <<store, ops, tx, before, lastWrite>>

\* openOrCreateDB.onsuccess: resolve(db) if db is set, and reject otherwise.
openOrCreateDB_onsuccess ==
    /\ \/ session.phase = "upgraded"
       \/ session.phase = "pending" /\ session.existing
    /\ session' = [session EXCEPT
          !.phase = "done",
          !.promise = IF session.db THEN "resolved" ELSE "rejected",
          !.reason = IF session.db THEN NoValue
                     ELSE Err("string", "indexedDB.open failed: db was not initialized")]
    /\ UNCHANGED <<store, ops, tx, before, lastWrite>>

\* openOrCreateDB.onerror.
openOrCreateDB_onerror ==
    /\ session.phase \in {"pending", "upgraded"}
    /\ session' = [session EXCEPT !.phase = "failed", !.promise = "rejected",
                                  !.reason = Err("string", "indexedDB.open failed")]
    /\ UNCHANGED <<store, ops, tx, before, lastWrite>>

\* ---------------------------------------------------------------- factory
\* The values a caller may pass for key, secret and opts: null or undefined,
\* a string, an options object with or without the engine handle.
Str(chars) == [type |-> "string", chars |-> chars]
Engine == [type |-> "IDBFactory"]
Opts(handle) == [type |-> "object", indexedDB |-> handle]

Keys == {Null, Str(<<>>), Str(<<"k">>)}
Secrets == {Null, Str(<<"s">>)}
OptsValues == {Null, Opts(Null), Opts(Engine)}

\* `!v`: null, undefined and the empty string are falsy.
falsy(v) == v = Null \/ v = Str(<<>>)

\* `throw new MobilettoError(message)`: no client comes into being.
throw(s, message) == [s EXCEPT !.phase = "thrown", !.reason = Err("MobilettoError", message)]

\* The constructor: its two checks, then the executor of dbPromise, which
\* calls indexedDB.open.
StorageClient(s, dbName, opts) ==
    IF falsy(dbName) THEN throw(s, "indexeddb.StorageClient: key (dbName) is required")
    ELSE IF opts # Null /\ ~falsy(opts.indexedDB)
    THEN [s EXCEPT !.phase = "pending", !.opens = @ + 1]
    ELSE throw(s, "indexeddb.StorageClient: opts.indexedDB is required")

\* A factory that constructs the client before it looks at opts.
storageClientOpensFirst(s, key, secret, opts) ==
    IF falsy(key) THEN throw(s, "indexeddb.storageClient: key is required")
    ELSE IF opts = Null \/ falsy(opts.indexedDB)
    THEN throw([s EXCEPT !.opens = @ + 1], "indexeddb.storageClient: opts.indexedDB is required")
    ELSE StorageClient(s, key, opts)

\* The factory.
storageClient(s, key, secret, opts) ==
    IF falsy(key) THEN throw(s, "indexeddb.storageClient: key is required")
    ELSE IF opts = Null \/ falsy(opts.indexedDB)
    THEN throw(s, "indexeddb.storageClient: opts.indexedDB is required")
    ELSE StorageClient(s, key, opts)

\* No client yet: the arguments the factory is about to be called with.
InitFactory ==
    /\ store = EmptyStore
    /\ session \in {[key |-> k, existing |-> e, phase |-> "new", db |-> FALSE,
                     promise |-> "pending", reason |-> NoValue,
                     opens |-> 0, upgrades |-> 0, given |-> {}, opts |-> o] :
                        e \in BOOLEAN, k \in Keys, o \in OptsValues}
    /\ ops = [p \in Procs |-> IdleOp]
    /\ tx = NoTx
    /\ before = [p \in Procs |-> EmptyStore]
    /\ lastWrite = Null

\* The call of the factory.
create ==
    /\ session.phase = "new"
    /\ \E secret \in Secrets : session' = storageClient(session, session.key, secret, session.opts)
    /\ UNCHANGED <<store, ops, tx, before, lastWrite>>

\* ------------------------------------------------------------------ calls
Call(p, o) ==
    /\ ops[p].kind = "idle"
    /\ ops' = [ops EXCEPT ![p] = o]
    /\ before' = [before EXCEPT ![p] = store]
    /\ lastWrite' = IF o.kind \in {"remove", "write"} THEN Null ELSE lastWrite
    /\ UNCHANGED <<store, session, tx>>

list(p, pth, recursive, visitor) == Call(p, NewOp("list", pth, recursive, FALSE, visitor, NoSource))
metadata(p, path) == Call(p, NewOp("metadata", path, FALSE, FALSE, "none", NoSource))
write(p, path, src) == Call(p, NewOp("write", path, FALSE, FALSE, "none", src))
read(p, path, endCallback) ==
    Call(p, [NewOp("read", path, FALSE, FALSE, "none", NoSource) EXCEPT !.endCallback = endCallback])
remove(p, path, recursive, quiet) == Call(p, NewOp("remove", path, recursive, quiet, "delete", NoSource))

\* The caller takes the settled result once the operation's callbacks are over.
Return(p) ==
    /\ ops[p].pc = "done" /\ ops[p].outcome # "pending"
    /\ ops' = [ops EXCEPT ![p] = IdleOp]
    /\ UNCHANGED <<store, session, tx, before, lastWrite>>

\* An mdb that opens the database anew on every call.
dbPromiseReopened(s) == [s EXCEPT !.opens = @ + 1]

\* `this.dbPromise`: the promise the constructor made; awaiting it calls
\* indexedDB.open no further time.
dbPromise(s) == s

\* `yield this.mdb()`: the session, or the rejection of dbPromise rethrown.
mdb(p) ==
    /\ ops[p].pc = "mdb" /\ session.promise # "pending"
    /\ ops' = [ops EXCEPT ![p] =
          IF session.promise = "rejected"
          THEN [reject(@, session.reason) EXCEPT !.pc = "done", !.fault = "session"]
          ELSE [@ EXCEPT !.pc = IF ops[p].kind = "write" THEN "aggregate" ELSE "open"]]
    /\ session' = IF session.promise = "rejected" THEN dbPromise(session)
                  ELSE [dbPromise(session) EXCEPT !.given = @ \cup {dbPromise(session).opens}]
    /\ UNCHANGED <<store, tx, before, lastWrite>>

\* db.transaction(...) and the first request of the operation.
transaction(p) ==
    /\ ops[p].pc = "open"
    /\ ops' = [ops EXCEPT ![p].pc = "request"]
    /\ UNCHANGED <<store, session, tx, before, lastWrite>>

\* db.transaction(...) throws: _list catches and logs, the executor of
\* metadata and read rejects, the async executor of write dies.
transaction_throws(p) ==
    /\ ops[p].pc = "open"
    /\ ops' = [ops EXCEPT ![p] =
          IF @.kind \in {"metadata", "read"}
          THEN [reject(@, Err("DOMException", "transaction")) EXCEPT !.pc = "done", !.fault = "throw"]
          ELSE [@ EXCEPT !.pc = "done", !.fault = "throw"]]
    /\ UNCHANGED <<store, session, tx, before, lastWrite>>

\* ------------------------------------------------------- list, and remove
NotFound(path) == [path |-> path, error |-> "MobilettoNotFoundError"]

\* A remove that answers an empty enumeration as if quiet were set.
removeFinishQuietly(o, toDelete) ==
    IF Len(toDelete) = 0 THEN resolve(o, <<>>)
    ELSE IF Len(o.deleteErrors) = 0
    THEN resolve(o, IF Len(o.deletedFiles) = 0 THEN <<>>
                    ELSE IF Len(o.deletedFiles) = 1 THEN o.deletedFiles[1]
                    ELSE o.deletedFiles)
    ELSE reject(o, o.deleteErrors[1])

\* A remove that reports the first deleted path, however many it deleted.
removeFinishFirstOnly(o, toDelete) ==
    IF Len(toDelete) = 0
    THEN (IF o.quiet THEN resolve(o, <<>>) ELSE reject(o, NotFound(o.path)))
    ELSE IF Len(o.deleteErrors) = 0
    THEN resolve(o, IF Len(o.deletedFiles) = 0 THEN <<>> ELSE o.deletedFiles[1])
    ELSE reject(o, o.deleteErrors[1])

\* remove, once _list has resolved with toDelete.
removeFinish(o, toDelete) ==
    IF Len(toDelete) = 0
    THEN (IF o.quiet THEN resolve(o, <<>>) ELSE reject(o, NotFound(o.path)))
    ELSE IF Len(o.deleteErrors) = 0
    THEN resolve(o, IF Len(o.deletedFiles) = 0 THEN <<>>
                    ELSE IF Len(o.deletedFiles) = 1 THEN o.deletedFiles[1]
                    ELSE o.deletedFiles)
    ELSE reject(o, o.deleteErrors[1])

\* The end of listRequest.onsuccess: resolve([foundExact]) or resolve(filtered).
listFinish(o) ==
    LET r == listResult(o.scan, o.path, o.recursive)
    IN [(IF o.kind = "remove" THEN removeFinish(o, r) ELSE resolve(o, r)) EXCEPT !.pc = "done"]

\* `yield visitor(f)`: the call, and what follows its resolution or rejection.
visitorCall(o) ==
    [o EXCEPT !.file = Head(o.queue), !.pc = IF o.visitor = "delete" THEN "vopen" ELSE "visit",
              !.deleteResult = Null, !.calls = Append(@, Head(o.queue))]

\* A loop that stops after the first visit.
visitorResolvedOnce(o) == listFinish([o EXCEPT !.queue = <<>>])

\* resolve(true) or resolve(deleteResult) of the visitor's promise.  Under
\* _list the loop goes on to the next file or _list resolves; for a
\* deleteVisitor called on its own the promise is the operation's.
visitorResolved(o) ==
    IF o.kind = "deleteVisitor"
    THEN [resolve(o, IF o.deletedFiles = <<>> THEN TRUE ELSE o.deletedFiles[1]) EXCEPT !.pc = "done"]
    ELSE IF Len(o.queue) <= 1 THEN listFinish([o EXCEPT !.queue = <<>>, !.returned = @ + 1])
    ELSE visitorCall([o EXCEPT !.queue = Tail(o.queue), !.returned = @ + 1])

\* A rejection after which the loop goes on to the next file.
visitorRejectedGoesOn(o) == visitorResolved(o)

\* The rejection is thrown inside the async onsuccess handler, which nothing
\* awaits: neither resolve nor reject of _list is ever called.
\* For a deleteVisitor called on its own it is the rejection of the
\* operation's promise: with the error just recorded, or with the exception
\* db.transaction threw.
visitorRejected(o) ==
    IF o.kind = "deleteVisitor"
    THEN [reject(o, IF o.deleteErrors = <<>> THEN Err("DOMException", "transaction")
                    ELSE o.deleteErrors[Len(o.deleteErrors)]) EXCEPT !.pc = "done"]
    ELSE [o EXCEPT !.pc = "done"]

listRequest_onsuccess(p) ==
    /\ ops[p].kind \in {"list", "remove"} /\ ops[p].pc = "request" /\ tx = NoTx
    /\ LET rs == getAll(store)
           q == IF ops[p].visitor = "none" THEN <<>> ELSE toVisit(rs, ops[p].path, ops[p].recursive)
           o == [ops[p] EXCEPT !.scan = rs, !.queue = q]
       IN ops' = [ops EXCEPT ![p] = IF q = <<>> THEN listFinish(o) ELSE visitorCall(o)]
    /\ tx' = [kind |-> "list", owner |-> p]
    /\ UNCHANGED <<store, session, before, lastWrite>>

\* reject(event); the event then reaches listTx.onerror, which logs.
listRequest_onerror(p) ==
    /\ ops[p].kind \in {"list", "remove"} /\ ops[p].pc = "request" /\ tx = NoTx
    /\ ops' = [ops EXCEPT ![p] =
          [reject(@, Err("Event", "listRequest")) EXCEPT !.pc = "done", !.fault = "scan"]]
    /\ UNCHANGED <<store, session, tx, before, lastWrite>>

\* The promise of the caller's visitor resolves, or rejects.
visitor_resolves(p) ==
    /\ ops[p].pc = "visit"
    /\ ops' = [ops EXCEPT ![p] = visitorResolved(@)]
    /\ UNCHANGED <<store, session, tx, before, lastWrite>>

visitor_rejects(p) ==
    /\ ops[p].pc = "visit"
    /\ ops' = [ops EXCEPT ![p] = visitorRejected(@)]
    /\ UNCHANGED <<store, session, tx, before, lastWrite>>

\* listTx.oncomplete and listTx.onerror log, and nothing else.
listTx_oncomplete(p) ==
    /\ tx = [kind |-> "list", owner |-> p]
    /\ tx' = NoTx
    /\ UNCHANGED <<store, session, ops, before, lastWrite>>

listTx_onerror(p) ==
    /\ tx = [kind |-> "list", owner |-> p]
    /\ tx' = NoTx
    /\ UNCHANGED <<store, session, ops, before, lastWrite>>

\* ---------------------------------------------------------- deleteVisitor
isError(r) == "error" \in DOMAIN r

\* A deleteTx.onerror that records and raises its error even when quiet.
deleteTx_onerror_loud(o) ==
    visitorRejected([o EXCEPT !.deleteErrors = Append(@, Err("MobilettoError", "deleteTx error"))])

\* deleteTx.onerror.
deleteTx_onerror_handler(o) ==
    IF o.quiet THEN visitorResolved(o)
    ELSE visitorRejected([o EXCEPT !.deleteErrors = Append(@, Err("MobilettoError", "deleteTx error"))])

\* deleteTx.oncomplete.
deleteTx_oncomplete_handler(o) ==
    IF o.deleteResult = Null
    THEN (IF o.quiet THEN visitorResolved(o)
          ELSE visitorRejected([o EXCEPT !.deleteErrors =
                                   Append(@, Err("MobilettoError", "deleteResult was null"))]))
    ELSE IF isError(o.deleteResult)
    THEN (IF o.quiet THEN visitorResolved(o)
          ELSE visitorRejected([o EXCEPT !.deleteErrors = Append(@, o.deleteResult)]))
    ELSE visitorResolved([o EXCEPT !.deletedFiles = Append(@, o.deleteResult.path)])

\* The not-a-file branch of deleteVisitor: resolve(true) when quiet, else the
\* error is pushed to deleteErrors and the promise rejected.
notAFile(o) ==
    LET err == Err("MobilettoError", "not a file")
    IN IF o.file.type # M_FILE
       THEN (IF o.quiet THEN resolve(o, TRUE)
             ELSE reject([o EXCEPT !.deleteErrors = Append(@, err)], err))
       ELSE o

\* deleteVisitor(file), called on its own with the db of an established
\* session (_list calls it with records only).  The branch has no return:
\* whatever the type of the entry, the executor goes on to db.transaction.
deleteVisitor(p, file, quiet) ==
    Call(p, [notAFile([NewOp("deleteVisitor", file.name, FALSE, quiet, "delete", NoSource)
                          EXCEPT !.file = file, !.calls = <<file>>]) EXCEPT !.pc = "vopen"])

\* The delete transaction of the file visited is over: completed, or failed.
closeTx(o) == [o EXCEPT !.closed = @ + 1]

\* db.transaction(ROOT_STORE, "readwrite") and get(path), for the file visited.
deleteTx_open(p) ==
    /\ ops[p].pc = "vopen"
    /\ ops' = [ops EXCEPT ![p] = [@ EXCEPT !.pc = "find", !.visited = Append(@, ops[p].file.name)]]
    /\ UNCHANGED <<store, session, tx, before, lastWrite>>

\* The same call throws: the visitor's promise rejects, with no error recorded.
deleteTx_throws(p) ==
    /\ ops[p].pc = "vopen"
    /\ ops' = [ops EXCEPT ![p] = [visitorRejected(@) EXCEPT !.fault = "throw"]]
    /\ UNCHANGED <<store, session, tx, before, lastWrite>>

findRequest_onsuccess(p) ==
    /\ ops[p].pc = "find" /\ tx = NoTx
    /\ LET found == get(store, ops[p].file.name) # Null
       IN ops' = [ops EXCEPT ![p] =
             IF found THEN [@ EXCEPT !.pc = "delete"]
             ELSE [@ EXCEPT !.pc = "vtx", !.deleteResult = NotFound(ops[p].file.name)]]
    /\ tx' = [kind |-> "delete", owner |-> p]
    /\ UNCHANGED <<store, session, before, lastWrite>>

\* findRequest.onerror, then deleteTx.onerror; the transaction is aborted.
findRequest_onerror(p) ==
    /\ ops[p].pc = "find" /\ tx = NoTx
    /\ ops' = [ops EXCEPT ![p] =
          deleteTx_onerror_handler([closeTx(@) EXCEPT !.deleteResult = NotFound(ops[p].file.name)])]
    /\ UNCHANGED <<store, session, tx, before, lastWrite>>

deleteRequest_onsuccess(p) ==
    /\ ops[p].pc = "delete" /\ tx = [kind |-> "delete", owner |-> p]
    /\ ops' = [ops EXCEPT ![p] = [@ EXCEPT !.pc = "vtx", !.deleteResult = [path |-> ops[p].file.name]]]
    /\ UNCHANGED <<store, session, tx, before, lastWrite>>

\* deleteRequest.onerror, then deleteTx.onerror; the transaction is aborted.
deleteRequest_onerror(p) ==
    /\ ops[p].pc = "delete" /\ tx = [kind |-> "delete", owner |-> p]
    /\ ops' = [ops EXCEPT ![p] =
          deleteTx_onerror_handler([closeTx(@) EXCEPT !.deleteResult = Err("MobilettoError", "deleteRequest error")])]
    /\ tx' = NoTx
    /\ UNCHANGED <<store, session, before, lastWrite>>

\* The delete is committed, and deleteTx.oncomplete runs.
deleteTx_oncomplete(p) ==
    /\ ops[p].pc = "vtx" /\ tx = [kind |-> "delete", owner |-> p]
    /\ store' = IF ops[p].deleteResult # Null /\ ~isError(ops[p].deleteResult)
                THEN delete(store, ops[p].deleteResult.path) ELSE store
    /\ ops' = [ops EXCEPT ![p] = deleteTx_oncomplete_handler(closeTx(@))]
    /\ tx' = NoTx
    /\ UNCHANGED <<session, before, lastWrite>>

\* The transaction fails after its requests succeeded: nothing is deleted.
deleteTx_onerror(p) ==
    /\ ops[p].pc = "vtx" /\ tx = [kind |-> "delete", owner |-> p]
    /\ ops' = [ops EXCEPT ![p] = deleteTx_onerror_handler(closeTx(@))]
    /\ tx' = NoTx
    /\ UNCHANGED <<store, session, before, lastWrite>>

\* --------------------------------------------------------------- metadata
metadata_readRequest_onsuccess(p) ==
    /\ ops[p].kind = "metadata" /\ ops[p].pc = "request" /\ tx = NoTx
    /\ ops' = [ops EXCEPT ![p] = [@ EXCEPT !.pc = "tx", !.data = get(store, ops[p].path)]]
    /\ tx' = [kind |-> "metadata", owner |-> p]
    /\ UNCHANGED <<store, session, before, lastWrite>>

\* readRequest.onerror, then readMetaTx.onerror; the transaction is aborted.
metadata_readRequest_onerror(p) ==
    /\ ops[p].kind = "metadata" /\ ops[p].pc = "request" /\ tx = NoTx
    /\ ops' = [ops EXCEPT ![p] =
          [reject(reject(@, Err("MobilettoError", "metadata readRequest error")),
                  Err("MobilettoError", "metadata readMetaTx error")) EXCEPT !.pc = "done", !.fault = "request"]]
    /\ UNCHANGED <<store, session, tx, before, lastWrite>>

\* `delete data.bytes`: the entry without its payload.
withoutBytes(data) == [f \in DOMAIN data \ {"bytes"} |-> data[f]]

\* A readMetaTx.oncomplete that takes a record with an empty payload for none.
readMetaTx_oncomplete_nonEmpty(p) ==
    /\ ops[p].kind = "metadata" /\ ops[p].pc = "tx" /\ tx = [kind |-> "metadata", owner |-> p]
    /\ ops' = [ops EXCEPT ![p] =
          [(IF @.data = Null \/ Len(@.data.bytes) = 0 THEN reject(@, NotFound(@.path))
            ELSE resolve(@, withoutBytes(@.data))) EXCEPT !.pc = "done"]]
    /\ tx' = NoTx
    /\ UNCHANGED <<store, session, before, lastWrite>>

\* A readMetaTx.oncomplete whose `delete data.bytes` reaches the stored record.
readMetaTx_oncomplete_strips(p) ==
    /\ ops[p].kind = "metadata" /\ ops[p].pc = "tx" /\ tx = [kind |-> "metadata", owner |-> p]
    /\ ops' = [ops EXCEPT ![p] =
          [(IF @.data = Null THEN reject(@, NotFound(@.path))
            ELSE resolve(@, withoutBytes(@.data))) EXCEPT !.pc = "done"]]
    /\ store' = IF ops[p].data = Null THEN store
                ELSE put(store, withoutBytes(ops[p].data), ops[p].path)
    /\ tx' = NoTx
    /\ UNCHANGED <<session, before, lastWrite>>

readMetaTx_oncomplete(p) ==
    /\ ops[p].kind = "metadata" /\ ops[p].pc = "tx" /\ tx = [kind |-> "metadata", owner |-> p]
    /\ ops' = [ops EXCEPT ![p] =
          [(IF @.data = Null THEN reject(@, NotFound(@.path))
            ELSE resolve(@, withoutBytes(@.data))) EXCEPT !.pc = "done"]]
    /\ tx' = NoTx
    /\ UNCHANGED <<store, session, before, lastWrite>>

readMetaTx_onerror(p) ==
    /\ ops[p].kind = "metadata" /\ ops[p].pc = "tx" /\ tx = [kind |-> "metadata", owner |-> p]
    /\ ops' = [ops EXCEPT ![p] =
          [reject(@, Err("MobilettoError", "metadata readMetaTx error")) EXCEPT !.pc = "done", !.fault = "tx"]]
    /\ tx' = NoTx
    /\ UNCHANGED <<store, session, before, lastWrite>>

\* ------------------------------------------------------------------- read
\* The callbacks readRequest.onsuccess calls: callback, then endCallback if
\* read was given one.
callbacks(o) == IF o.endCallback THEN <<"callback", "endCallback">> ELSE <<"callback">>

\* A readRequest.onsuccess that also resolves, before the transaction is over.
readRequest_onsuccess_resolves(o, result) ==
    IF result = Null THEN [o EXCEPT !.notFound = NotFound(o.path)]
    ELSE IF Len(result.bytes) > 0
    THEN resolve([o EXCEPT !.chunks = Append(@, Buffer_from(result.bytes)),
                           !.ends = IF o.endCallback THEN @ + 1 ELSE @,
                           !.bytesRead = Len(Buffer_from(result.bytes)),
                           !.trace = @ \o callbacks(o)],
                 Len(Buffer_from(result.bytes)))
    ELSE o

\* readRequest.onsuccess: an absent record sets notFound; a record with a
\* non-empty payload is decoded and handed to callback, then endCallback is
\* called, and bytesRead is set.
readRequest_onsuccess_handler(o, result) ==
    IF result = Null THEN [o EXCEPT !.notFound = NotFound(o.path)]
    ELSE IF Len(result.bytes) > 0
    THEN [o EXCEPT !.chunks = Append(@, Buffer_from(result.bytes)),
                   !.ends = IF o.endCallback THEN @ + 1 ELSE @,
                   !.bytesRead = Len(Buffer_from(result.bytes)),
                   !.trace = @ \o callbacks(o)]
    ELSE o

read_readRequest_onsuccess(p) ==
    /\ ops[p].kind = "read" /\ ops[p].pc = "request" /\ tx = NoTx
    /\ ops' = [ops EXCEPT ![p] =
          [readRequest_onsuccess_handler(@, get(store, ops[p].path)) EXCEPT !.pc = "tx"]]
    /\ tx' = [kind |-> "read", owner |-> p]
    /\ UNCHANGED <<store, session, before, lastWrite>>

\* readRequest.onerror, then readTx.onerror; the transaction is aborted.
read_readRequest_onerror(p) ==
    /\ ops[p].kind = "read" /\ ops[p].pc = "request" /\ tx = NoTx
    /\ ops' = [ops EXCEPT ![p] =
          [reject(reject(@, Err("MobilettoError", "read readRequest error")),
                  Err("MobilettoError", "read readTx error")) EXCEPT !.pc = "done", !.fault = "request"]]
    /\ UNCHANGED <<store, session, tx, before, lastWrite>>

\* A readTx.oncomplete that resolves with bytesRead also when it is 0.
readTx_oncomplete_settles(o) ==
    IF o.notFound # Null THEN reject(o, o.notFound) ELSE resolve(o, o.bytesRead)

\* readTx.oncomplete: resolve(bytesRead), or reject(notFound), or a warning.
readTx_oncomplete_handler(o) ==
    IF o.bytesRead # 0 THEN resolve(o, o.bytesRead)
    ELSE IF o.notFound # Null THEN reject(o, o.notFound)
    ELSE o

readTx_oncomplete(p) ==
    /\ ops[p].kind = "read" /\ ops[p].pc = "tx" /\ tx = [kind |-> "read", owner |-> p]
    /\ ops' = [ops EXCEPT ![p] = [readTx_oncomplete_handler(@) EXCEPT !.pc = "done"]]
    /\ tx' = NoTx
    /\ UNCHANGED <<store, session, before, lastWrite>>

readTx_onerror(p) ==
    /\ ops[p].kind = "read" /\ ops[p].pc = "tx" /\ tx = [kind |-> "read", owner |-> p]
    /\ ops' = [ops EXCEPT ![p] =
          [reject(@, Err("MobilettoError", "read readTx error")) EXCEPT !.pc = "done", !.fault = "tx"]]
    /\ tx' = NoTx
    /\ UNCHANGED <<store, session, before, lastWrite>>

\* ------------------------------------------------------------------ write
\* generator.next().value, or the next data event: the item at the source's
\* position, undefined once a generator is exhausted.
itemAt(o) == IF o.pos < Len(o.src.items) THEN o.src.items[o.pos + 1] ELSE Nil

\* bytes.push(...chunk).
push(bytes, chunk) == bytes \o chunk

\* A loop condition that no count of empty yields makes false.
loopGoesOnForEver(o) == TRUE

\* One turn of the pull loop: the chunk is appended, or nullCount counts an
\* empty yield; the loop is left on an empty yield once NullLimit are counted.
loopGoesOn(o) == itemAt(o) # Nil \/ o.nullCount < NullLimit

next(p) ==
    /\ ops[p].kind = "write" /\ ops[p].pc = "aggregate" /\ ops[p].src.style = "pull"
    /\ ops' = [ops EXCEPT ![p] =
          IF loopGoesOn(@)
          THEN [@ EXCEPT !.bytes = IF itemAt(ops[p]) # Nil THEN push(@, itemAt(ops[p]).data) ELSE @,
                         !.nullCount = IF itemAt(ops[p]) # Nil THEN @ ELSE @ + 1,
                         !.pos = IF @ < Len(ops[p].src.items) THEN @ + 1 ELSE @]
          ELSE [@ EXCEPT !.pc = "open"]]
    /\ UNCHANGED <<store, session, tx, before, lastWrite>>

\* stream.on("data"): a chunk is appended, an empty one skipped.
stream_data(p) ==
    /\ ops[p].kind = "write" /\ ops[p].pc = "aggregate" /\ ops[p].src.style = "push"
    /\ ops[p].pos < Len(ops[p].src.items)
    /\ ops' = [ops EXCEPT ![p] =
          [@ EXCEPT !.bytes = IF itemAt(ops[p]) # Nil THEN push(@, itemAt(ops[p]).data) ELSE @,
                    !.pos = @ + 1]]
    /\ UNCHANGED <<store, session, tx, before, lastWrite>>

\* stream.on("end"): resolve2(0), and write goes on to its transaction.
stream_end(p) ==
    /\ ops[p].kind = "write" /\ ops[p].pc = "aggregate" /\ ops[p].src.style = "push"
    /\ ops[p].pos = Len(ops[p].src.items) /\ ops[p].src.fin = "end"
    /\ ops' = [ops EXCEPT ![p].pc = "open"]
    /\ UNCHANGED <<store, session, tx, before, lastWrite>>

\* stream.on("error"): reject2(e) is thrown by `yield streamHandler(readable)`
\* inside the async executor, whose promise nothing awaits.
stream_error(p) ==
    /\ ops[p].kind = "write" /\ ops[p].pc = "aggregate" /\ ops[p].src.style = "push"
    /\ ops[p].pos = Len(ops[p].src.items) /\ ops[p].src.fin = "error"
    /\ ops' = [ops EXCEPT ![p].pc = "done"]
    /\ UNCHANGED <<store, session, tx, before, lastWrite>>

\* A writeObject whose size field is not taken from its payload.
writeObjectUnsized(o) == [FileRecord(o.path, o.bytes) EXCEPT !.size = 0]

\* `writeObject`: name, type, bytes and size (mtime is left out).
writeObject(o) == FileRecord(o.path, o.bytes)

\* writeRequest.onsuccess: resolve(bytes.length).
writeRequest_onsuccess_handler(o) == resolve(o, Len(o.bytes))

writeRequest_onsuccess(p) ==
    /\ ops[p].kind = "write" /\ ops[p].pc = "request" /\ tx = NoTx
    /\ ops' = [ops EXCEPT ![p] = [writeRequest_onsuccess_handler(@) EXCEPT !.pc = "tx"]]
    /\ tx' = [kind |-> "write", owner |-> p]
    /\ lastWrite' = [path |-> ops[p].path, bytes |-> Flatten(ops[p].src.items)]
    /\ UNCHANGED <<store, session, before>>

\* writeRequest.onerror, then writeTx.onerror; the transaction is aborted.
writeRequest_onerror(p) ==
    /\ ops[p].kind = "write" /\ ops[p].pc = "request" /\ tx = NoTx
    /\ ops' = [ops EXCEPT ![p] =
          [reject(reject(@, Err("MobilettoError", "write writeRequest error")),
                  Err("MobilettoError", "write writeTx error")) EXCEPT !.pc = "done", !.fault = "request"]]
    /\ UNCHANGED <<store, session, tx, before, lastWrite>>

\* The put is committed, and writeTx.oncomplete runs: resolve(bytes.length).
writeTx_oncomplete(p) ==
    /\ ops[p].kind = "write" /\ ops[p].pc = "tx" /\ tx = [kind |-> "write", owner |-> p]
    /\ store' = put(store, writeObject(ops[p]), ops[p].path)
    /\ ops' = [ops EXCEPT ![p] = [resolve(@, Len(@.bytes)) EXCEPT !.pc = "done"]]
    /\ tx' = NoTx
    /\ lastWrite' = [path |-> ops[p].path, bytes |-> Flatten(ops[p].src.items)]
    /\ UNCHANGED <<session, before>>

\* The transaction fails after the put succeeded: the put is undone, and
\* writeTx.onerror rejects.
writeTx_onerror(p) ==
    /\ ops[p].kind = "write" /\ ops[p].pc = "tx" /\ tx = [kind |-> "write", owner |-> p]
    /\ ops' = [ops EXCEPT ![p] =
          [reject(@, Err("MobilettoError", "write writeTx error")) EXCEPT !.pc = "done", !.fault = "tx"]]
    /\ tx' = NoTx
    /\ UNCHANGED <<store, session, before, lastWrite>>

\* --------------------------------------------------------- specifications
\* What the engine does for the session.
Open == onupgradeneeded \/ openOrCreateDB_onsuccess \/ openOrCreateDB_onerror

\* The callbacks of list, and of the enumeration of remove.
ListSteps(p) ==
    \/ mdb(p) \/ transaction(p) \/ transaction_throws(p)
    \/ listRequest_onsuccess(p) \/ listRequest_onerror(p)
    \/ visitor_resolves(p) \/ visitor_rejects(p)
    \/ listTx_oncomplete(p) \/ listTx_onerror(p)
    \/ Return(p)

DeleteSteps(p) ==
    \/ deleteTx_open(p) \/ deleteTx_throws(p)
    \/ findRequest_onsuccess(p) \/ findRequest_onerror(p)
    \/ deleteRequest_onsuccess(p) \/ deleteRequest_onerror(p)
    \/ deleteTx_oncomplete(p) \/ deleteTx_onerror(p)

MetadataSteps(p) ==
    \/ metadata_readRequest_onsuccess(p) \/ metadata_readRequest_onerror(p)
    \/ readMetaTx_oncomplete(p) \/ readMetaTx_onerror(p)

ReadSteps(p) ==
    \/ read_readRequest_onsuccess(p) \/ read_readRequest_onerror(p)
    \/ readTx_oncomplete(p) \/ readTx_onerror(p)

WriteSteps(p) ==
    \/ next(p) \/ stream_data(p) \/ stream_end(p) \/ stream_error(p)
    \/ writeRequest_onsuccess(p) \/ writeRequest_onerror(p)
    \/ writeTx_oncomplete(p) \/ writeTx_onerror(p)

Calls(p) ==
    \/ \E pth \in CallPaths, recursive \in BOOLEAN, visitor \in Visitors : list(p, pth, recursive, visitor)
    \/ \E path \in CallPaths : metadata(p, path)
    \/ \E path \in WritePaths, src \in Sources : write(p, path, src)
    \/ \E path \in CallPaths, endCallback \in BOOLEAN : read(p, path, endCallback)
    \/ \E path \in CallPaths, recursive \in BOOLEAN, quiet \in BOOLEAN : remove(p, path, recursive, quiet)

\* One caller, one operation at a time, on a new client.
Next ==
    \/ Open
    \/ \E p \in Solo :
          Calls(p) \/ ListSteps(p) \/ DeleteSteps(p) \/ MetadataSteps(p) \/ ReadSteps(p) \/ WriteSteps(p)

Spec == Init /\ [][Next]_vars

\* One caller that only lists, on a store earlier writes filled.
NextList ==
    \E p \in Solo :
        \/ \E pth \in QueryPaths, recursive \in BOOLEAN, visitor \in Visitors :
              list(p, pth, recursive, visitor)
        \/ ListSteps(p)

SpecList == InitList /\ [][NextList]_vars

\* Two callers of one new client, each with a metadata or a read under way,
\* called before or after the open request has finished.
NextPair ==
    \/ Open
    \/ \E p \in Procs :
          \/ metadata(p, P_a)
          \/ \E endCallback \in BOOLEAN : read(p, P_a, endCallback)
          \/ mdb(p) \/ transaction(p) \/ transaction_throws(p)
          \/ MetadataSteps(p) \/ ReadSteps(p)
          \/ Return(p)

SpecPair == Init /\ [][NextPair]_vars

\* The factory is called once; the client it returns, if any, serves two
\* callers, each with a metadata or a read.
NextFactory ==
    \/ create
    \/ /\ session.phase \notin {"new", "thrown"}
       /\ NextPair

SpecFactory == InitFactory /\ [][NextFactory]_vars

\* One caller that only writes, on a new client; the pull loop, which runs
\* without waiting for any event, is not held up for ever.
NextWrite ==
    \/ Open
    \/ \E p \in Solo :
          \/ \E path \in WritePaths, src \in Sources : write(p, path, src)
          \/ mdb(p) \/ transaction(p) \/ transaction_throws(p)
          \/ WriteSteps(p)
          \/ Return(p)

SpecWrite == Init /\ [][NextWrite]_vars /\ WF_vars(\E p \in Solo : next(p))

\* Two callers of one new client, each with one write to the path a; their
\* chunks arrive, and their transactions run, in any order.
NextWrites ==
    \/ Open
    \/ \E p \in Procs :
          \/ \E src \in Sources : write(p, P_a, src)
          \/ mdb(p) \/ transaction(p) \/ transaction_throws(p)
          \/ WriteSteps(p)

SpecWrites == Init /\ [][NextWrites]_vars

\* A client whose session is established, on a store holding some of the
\* files a/a, a/B/a and B.
RemoveNames == {P_aSa, P_aSBSa, P_B}

InitRemoves ==
    /\ store \in {StoreOf(ns) : ns \in SUBSET RemoveNames}
    /\ session = [existing |-> FALSE, phase |-> "done", db |-> TRUE,
                  promise |-> "resolved", reason |-> NoValue,
                  opens |-> 1, upgrades |-> 1, given |-> {}]
    /\ ops = [p \in Procs |-> IdleOp]
    /\ tx = NoTx
    /\ before = [p \in Procs |-> store]
    /\ lastWrite = Null

\* Two callers, each with one remove of everything or of what is below a;
\* their scans and their per-file transactions run in any order.
NextRemoves ==
    \E p \in Procs :
        \/ \E path \in {<<>>, P_aS}, recursive \in BOOLEAN, quiet \in BOOLEAN :
              remove(p, path, recursive, quiet)
        \/ mdb(p) \/ transaction(p) \/ transaction_throws(p)
        \/ listRequest_onsuccess(p) \/ listRequest_onerror(p)
        \/ listTx_oncomplete(p) \/ listTx_onerror(p)
        \/ DeleteSteps(p)

SpecRemoves == InitRemoves /\ [][NextRemoves]_vars

\* deleteVisitor called on its own, on a store made of a/B, a/B/a and B, with
\* a record of the store or with a directory entry named a or a/B.
VisitNames == {P_aSB, P_aSBSa, P_B}
DirNames == {P_a, P_aSB}
Entries(st) == {st[k] : k \in DOMAIN st} \cup {[type |-> M_DIR, name |-> n] : n \in DirNames}

InitVisitor ==
    /\ store \in {StoreOf(ns) : ns \in SUBSET VisitNames}
    /\ session = [existing |-> FALSE, phase |-> "done", db |-> TRUE,
                  promise |-> "resolved", reason |-> NoValue,
                  opens |-> 1, upgrades |-> 1, given |-> {}]
    /\ ops = [p \in Procs |-> IdleOp]
    /\ tx = NoTx
    /\ before = [p \in Procs |-> store]
    /\ lastWrite = Null

NextVisitor ==
    \E p \in Solo :
        \/ \E file \in Entries(store), quiet \in BOOLEAN : deleteVisitor(p, file, quiet)
        \/ DeleteSteps(p)
        \/ Return(p)

SpecVisitor == InitVisitor /\ [][NextVisitor]_vars

\* The sources of at most one item.
ShortSources == {src \in Sources : Len(src.items) <= 1}

\* Two callers on such a store: one calls a remove and the other a write to
\* a/a or to the new key a/B, and the two operations run in any order.
Remover == "c1"
Writer == "c2"

NextRemoveWrite ==
    \/ \E path \in {<<>>, P_aS}, recursive \in BOOLEAN, quiet \in BOOLEAN :
          remove(Remover, path, recursive, quiet)
    \/ \E path \in {P_aSa, P_aSB}, src \in ShortSources : write(Writer, path, src)
    \/ \E p \in Procs :
          \/ mdb(p) \/ transaction(p) \/ transaction_throws(p)
          \/ listRequest_onsuccess(p) \/ listRequest_onerror(p)
          \/ listTx_oncomplete(p) \/ listTx_onerror(p)
          \/ DeleteSteps(p)
          \/ WriteSteps(p)

SpecRemoveWrite == InitRemoves /\ [][NextRemoveWrite]_vars

\* ----------------------------------------------------------------- claims
\* The names of a sequence of entries.
namesOf(r) == {r[i].name : i \in 1..Len(r)}

\* An operation that an engine or session failure made fail.
faulted(o) == o.outcome = "rejected" /\ o.value.error # "MobilettoNotFoundError"

\* C1: once write(p, bytes) has resolved and nothing else touched p, a read
\* of p that the engine did not fail hands exactly bytes to onChunk, once,
\* and resolves with len(bytes); this includes the empty byte sequence.
C1_WriteThenRead ==
    \A p \in Procs :
        (/\ ops[p].kind = "read" /\ ops[p].pc = "done" /\ ~faulted(ops[p])
         /\ lastWrite # Null /\ lastWrite.path = ops[p].path)
        => /\ ops[p].outcome = "resolved"
           /\ ops[p].value = Ok(Len(lastWrite.bytes))
           /\ ops[p].chunks = <<lastWrite.bytes>>

\* C2: a remove(p, recursive=true, quiet=false) that the engine did not fail
\* deletes exactly the files list(p, recursive=true) returned on the store it
\* was called on, leaves every other record as it was, and list(p,
\* recursive=true) on the store it leaves behind is empty.
C2_RemoveMatchesList ==
    \A p \in Procs :
        (/\ ops[p].kind = "remove" /\ ops[p].recursive /\ ~ops[p].quiet
         /\ ops[p].pc = "done"
         /\ \/ ops[p].outcome = "resolved"
            \/ ops[p].outcome = "rejected" /\ ops[p].value = NotFound(ops[p].path))
        => /\ DOMAIN before[p] \ DOMAIN store
                = namesOf(listResult(getAll(before[p]), ops[p].path, TRUE))
           /\ \A k \in DOMAIN store : k \in DOMAIN before[p] /\ store[k] = before[p][k]
           /\ listResult(getAll(store), ops[p].path, TRUE) = <<>>

C2_Witness ==
    \E p \in Procs :
        /\ ops[p].kind = "remove" /\ ops[p].recursive /\ ~ops[p].quiet
        /\ ops[p].pc = "done" /\ ops[p].outcome = "resolved"
        /\ Len(ops[p].deletedFiles) = 2
        /\ DOMAIN store # {}

\* C3: a remove with quiet=false whose callbacks are over and that recorded
\* a per-file error has rejected with the first error it recorded.
C3_RemoveRejectsWithFirstError ==
    \A p \in Procs :
        (/\ ops[p].kind = "remove" /\ ~ops[p].quiet /\ ops[p].pc = "done"
         /\ Len(ops[p].deleteErrors) > 0)
        => ops[p].outcome = "rejected" /\ ops[p].value = ops[p].deleteErrors[1]

\* C4: an operation whose callbacks are all over has settled.
C4_EverySettles ==
    \A p \in Procs : ops[p].pc = "done" => ops[p].outcome # "pending"

\* C5: a write whose transaction is over and that resolved with n left a
\* record at its path whose payload has length n (so a write whose
\* transaction failed after the put succeeded did not resolve).
C5_WriteResolvesOnlyCommitted ==
    \A p \in Procs :
        (ops[p].kind = "write" /\ ops[p].pc = "done" /\ ops[p].outcome = "resolved")
        => /\ ops[p].path \in DOMAIN store
           /\ Ok(Len(store[ops[p].path].bytes)) = ops[p].value

\* The error a push-style source emits.
streamError == Err("Error", "stream")

\* C6: a write from a push-style source that emitted error has rejected with
\* that error, and the store is as it was when write was called.
C6_StreamErrorRejects ==
    \A p \in Procs :
        (/\ ops[p].kind = "write" /\ ops[p].src.style = "push" /\ ops[p].src.fin = "error"
         /\ ops[p].pc = "done" /\ session.promise = "resolved")
        => /\ ops[p].outcome = "rejected" /\ ops[p].value = streamError
           /\ store = before[p]

\* C7: list("", recursive=true) resolves with the stored records, each once,
\* in ascending order of name, and with no directory entry among them.
C7_ListAllRecursive ==
    \A p \in Procs :
        (/\ ops[p].kind = "list" /\ ops[p].path = <<>> /\ ops[p].recursive
         /\ ops[p].outcome = "resolved")
        => LET r == ops[p].value.ok
           IN /\ Len(r) = Cardinality(DOMAIN store)
              /\ \A k \in DOMAIN store : \E i \in 1..Len(r) : r[i] = store[k]
              /\ \A i \in 1..Len(r) : r[i].type = M_FILE
              /\ \A i, j \in 1..Len(r) : i < j => localeCompare(r[i].name, r[j].name) < 0

C7_Witness ==
    \E p \in Procs :
        /\ ops[p].kind = "list" /\ ops[p].path = <<>> /\ ops[p].recursive
        /\ ops[p].outcome = "resolved"
        /\ DOMAIN store = {P_B, P_aSa, P_aSBSa}

\* The names stored strictly below the normalized prefix of pth, the part of
\* such a name after the prefix, and its first segment.
under(st, pth) ==
    {n \in DOMAIN st : startsWith(n, normMatch(pth)) /\ Len(n) > Len(normMatch(pth))}
rest(n, pth) == SubSeq(n, Len(normMatch(pth)) + 1, Len(n))
isDirect(n, pth) == \A i \in 1..Len(rest(n, pth)) : rest(n, pth)[i] # SEP
segment(n, pth) ==
    IF isDirect(n, pth) THEN rest(n, pth)
    ELSE SubSeq(rest(n, pth), 1, MinOf({i \in 1..Len(rest(n, pth)) : rest(n, pth)[i] = SEP}) - 1)

\* Whether a directory entry's name names the segment seg below pth.
namesSegment(name, seg, pth) ==
    name = normMatch(pth) \o seg \/ name = normMatch(pth) \o seg \o <<SEP>>

\* A name none of whose segments is empty.
plainName(n) ==
    /\ n[1] # SEP /\ n[Len(n)] # SEP
    /\ \A i \in 1..(Len(n) - 1) : ~(n[i] = SEP /\ n[i + 1] = SEP)

\* C8: for a path that is no stored record, list(path, recursive=false)
\* resolves with the record of every direct child file, with exactly one
\* directory entry for every segment that has a file nested below it (also
\* when a file of that segment's name is stored), and with nothing else.
\* Stated for stores whose names have no empty segment.
C8_OneLevelListing ==
    \A p \in Procs :
        (/\ ops[p].kind = "list" /\ ~ops[p].recursive /\ ops[p].outcome = "resolved"
         /\ ops[p].path \notin DOMAIN store
         /\ \A n \in DOMAIN store : plainName(n))
        => LET r == ops[p].value.ok
               pth == ops[p].path
               files == {i \in 1..Len(r) : r[i].type = M_FILE}
               dirs == {i \in 1..Len(r) : r[i].type = M_DIR}
           IN /\ \A i \in files : /\ r[i].name \in under(store, pth)
                                   /\ isDirect(r[i].name, pth)
                                   /\ r[i] = store[r[i].name]
              /\ \A n \in under(store, pth) :
                    IF isDirect(n, pth)
                    THEN \E i \in files : r[i].name = n
                    ELSE Cardinality({i \in dirs : namesSegment(r[i].name, segment(n, pth), pth)}) = 1
              /\ \A i \in dirs : \E n \in under(store, pth) :
                    ~isDirect(n, pth) /\ namesSegment(r[i].name, segment(n, pth), pth)
              /\ \A i, j \in 1..Len(r) : r[i] = r[j] => i = j

\* C9: when a stored record's name is the path asked for, list(path,
\* recursive=false) resolves with that record alone.
C9_ExactMatchShortCircuit ==
    \A p \in Procs :
        (/\ ops[p].kind = "list" /\ ~ops[p].recursive /\ ops[p].outcome = "resolved"
         /\ ops[p].path \in DOMAIN store)
        => ops[p].value = Ok(<<store[ops[p].path]>>)

C9_Witness ==
    \E p \in Procs :
        /\ ops[p].kind = "list" /\ ~ops[p].recursive /\ ops[p].outcome = "resolved"
        /\ ops[p].path = P_a
        /\ DOMAIN store = {P_a, P_aSa, P_aB}

\* The directory entries of a non-recursive listing that has resolved.
dirEntries(p) ==
    IF ops[p].kind = "list" /\ ~ops[p].recursive /\ ops[p].outcome = "resolved"
    THEN {e \in {ops[p].value.ok[i] : i \in 1..Len(ops[p].value.ok)} : e.type = M_DIR}
    ELSE {}

C11_ListAscendingByName ==
    \A p \in Procs :
        (/\ ops[p].kind = "list" /\ ops[p].outcome = "resolved"
         /\ \A n \in DOMAIN store : plainName(n))
        => LET r == ops[p].value.ok
           IN \A i, j \in 1..Len(r) : i < j => localeCompare(r[i].name, r[j].name) < 0

\* C12: for a non-empty path that does not end with the separator, on a
\* store with no record named path or path + "/", list(path, recursive)
\* resolves with the entries list(path + "/", recursive) resolves with.
C12_TrailingSeparatorIgnored ==
    \A p \in Procs :
        (/\ ops[p].kind = "list" /\ ops[p].outcome = "resolved"
         /\ ops[p].path # <<>> /\ ~endsWith(ops[p].path, SEP)
         /\ ops[p].path \notin DOMAIN store
         /\ ops[p].path \o <<SEP>> \notin DOMAIN store)
        => ops[p].value.ok = listResult(getAll(store), ops[p].path \o <<SEP>>, ops[p].recursive)

\* C13: once the engine's open request has succeeded, with or without an
\* upgrade, the session promise is resolved.
C13_OpenSuccessAcquires ==
    session.phase = "done" => session.promise = "resolved"

\* C14 as stated: once the open request has succeeded, indexedDB.open and
\* onupgradeneeded have each run exactly once, and every acquisition has
\* returned the connection of that open.
C14_OpenAndUpgradeExactlyOnce ==
    session.phase = "done"
    => session.opens = 1 /\ session.upgrades = 1 /\ session.given \subseteq {1}

\* C14, amended: indexedDB.open is called exactly once; onupgradeneeded runs
\* at most once, never on a database that exists already and exactly once
\* before the open of a new one succeeds; and every acquisition, by either
\* caller, returns the connection of that one open.
C14_OneOpenOneSession ==
    /\ session.opens = 1
    /\ session.upgrades <= 1
    /\ session.existing => session.upgrades = 0
    /\ session.phase = "done" /\ ~session.existing => session.upgrades = 1
    /\ session.given \subseteq {1}

\* Both callers hold the session at once, each with its transaction to open.
C14_Witness ==
    /\ \A p \in Procs : ops[p].kind # "idle" /\ ops[p].pc = "open"
    /\ session.given = {1}

\* The payload of a pull-style source when only consecutive empty yields
\* count: a chunk resets the count, and the source is finished once more than
\* NullLimit empty yields have followed one another.
RECURSIVE consecutive(_, _)
consecutive(items, streak) ==
    IF items = <<>> THEN <<>>
    ELSE IF Head(items) = Nil
    THEN (IF streak + 1 > NullLimit THEN <<>> ELSE consecutive(Tail(items), streak + 1))
    ELSE Head(items).data \o consecutive(Tail(items), 0)

\* C15: once write has aggregated a pull-style source, its payload holds
\* every chunk that at most NullLimit consecutive empty yields precede.
C15_ConsecutiveEmptyYields ==
    \A p \in Procs :
        (/\ ops[p].kind = "write" /\ ops[p].src.style = "pull"
         /\ ops[p].pc \notin {"mdb", "aggregate"} /\ ops[p].fault # "session")
        => ops[p].bytes = consecutive(ops[p].src.items, 0)

\* C16: a remove whose enumeration matches no entry rejects with
\* MobilettoNotFoundError(path) when quiet is false and resolves with an empty
\* result when quiet is true, and leaves the store as it was.
C16_RemoveOfNothing ==
    \A p \in Procs :
        (/\ ops[p].kind = "remove" /\ ops[p].pc = "done" /\ ops[p].fault = "none"
         /\ listResult(getAll(before[p]), ops[p].path, ops[p].recursive) = <<>>)
        => /\ IF ops[p].quiet
              THEN ops[p].outcome = "resolved" /\ ops[p].value = Ok(<<>>)
              ELSE ops[p].outcome = "rejected" /\ ops[p].value = NotFound(ops[p].path)
           /\ store = before[p]

\* remove("B", quiet=false) has rejected on a store that holds other files.
C16_Witness ==
    \E p \in Procs :
        /\ ops[p].kind = "remove" /\ ops[p].pc = "done" /\ ops[p].fault = "none"
        /\ ops[p].path = P_B /\ ~ops[p].quiet
        /\ ops[p].outcome = "rejected" /\ ops[p].value = NotFound(P_B)
        /\ DOMAIN store # {}

\* C17: a remove that matched an entry and recorded no error resolves with an
\* empty sequence if it deleted no file, with the path itself if it deleted
\* one, and otherwise with the deleted paths in the order of their deletion
\* (ascending by name); the paths are those it removed from the store.
C17_RemoveResultShape ==
    \A p \in Procs :
        (/\ ops[p].kind = "remove" /\ ops[p].pc = "done" /\ ops[p].fault = "none"
         /\ listResult(getAll(before[p]), ops[p].path, ops[p].recursive) # <<>>
         /\ ops[p].deleteErrors = <<>>)
        => LET gone == DOMAIN before[p] \ DOMAIN store
               r == ops[p].value.ok
           IN /\ ops[p].outcome = "resolved"
              /\ Cardinality(gone) = 0 => r = <<>>
              /\ Cardinality(gone) = 1 => r \in gone
              /\ Cardinality(gone) > 1 =>
                    /\ Len(r) = Cardinality(gone)
                    /\ \A i \in 1..Len(r) : r[i] \in gone
                    /\ \A i, j \in 1..Len(r) : i < j => localeCompare(r[i], r[j]) < 0

\* remove("a/a") has resolved with that one path, other files left stored.
C17_Witness ==
    \E p \in Procs :
        /\ ops[p].kind = "remove" /\ ops[p].pc = "done" /\ ops[p].fault = "none"
        /\ ops[p].outcome = "resolved" /\ ops[p].value = Ok(P_aSa)
        /\ P_aSa \in DOMAIN before[p] /\ P_aSa \notin DOMAIN store
        /\ DOMAIN store # {}

C19_ReadOfAbsent ==
    \A p \in Procs :
        ops[p].kind = "read"
        => /\ (ops[p].pc = "done" /\ ops[p].fault = "none" /\ ops[p].path \notin DOMAIN store)
              => /\ ops[p].outcome = "rejected" /\ ops[p].value = NotFound(ops[p].path)
                 /\ ops[p].chunks = <<>> /\ ops[p].ends = 0
           /\ ops[p].path \in DOMAIN store
              => ~(ops[p].outcome = "rejected" /\ ops[p].value = NotFound(ops[p].path))

\* read("B") has rejected on a store that holds other files.
C19_Witness ==
    \E p \in Procs :
        /\ ops[p].kind = "read" /\ ops[p].pc = "done" /\ ops[p].fault = "none"
        /\ ops[p].path = P_B /\ DOMAIN store # {}
        /\ ops[p].outcome = "rejected" /\ ops[p].value = NotFound(P_B)

\* C20: a read of a stored record whose payload is empty, which the engine
\* does not fail, calls neither callback and is never settled, at no step and
\* not once its transaction has completed.
C20_ReadOfEmptyNeverSettles ==
    \A p \in Procs :
        (/\ ops[p].kind = "read" /\ ops[p].fault = "none"
         /\ ops[p].path \in DOMAIN store /\ store[ops[p].path].bytes = <<>>)
        => /\ ops[p].outcome = "pending"
           /\ ops[p].chunks = <<>> /\ ops[p].ends = 0

\* read("a") of an empty record after its transaction has completed.
C20_Witness ==
    \E p \in Procs :
        /\ ops[p].kind = "read" /\ ops[p].fault = "none" /\ ops[p].path = P_a
        /\ P_a \in DOMAIN store /\ store[P_a].bytes = <<>>
        /\ ops[p].pc = "done" /\ tx = NoTx /\ ops[p].outcome = "pending"

\* C21: once write(p, bytes) has resolved and nothing else touched p, a
\* metadata(p) that the engine did not fail resolves with an entry whose name
\* is p and whose size is len(bytes), and which has no payload field.
C21_WriteThenMetadata ==
    \A p \in Procs :
        (/\ ops[p].kind = "metadata" /\ ops[p].pc = "done" /\ ops[p].fault = "none"
         /\ lastWrite # Null /\ lastWrite.path = ops[p].path)
        => /\ ops[p].outcome = "resolved"
           /\ ops[p].value.ok.name = ops[p].path
           /\ ops[p].value.ok.size = Len(lastWrite.bytes)
           /\ "bytes" \notin DOMAIN ops[p].value.ok

\* C22: once write(p, b2) has resolved on a store that held a record at p,
\* the store holds at p the record of b2 alone (payload b2, size len(b2)),
\* and every other record is as it was when write was called.
C22_OverwriteReplaces ==
    \A p \in Procs :
        (/\ ops[p].kind = "write" /\ ops[p].pc = "done" /\ ops[p].outcome = "resolved"
         /\ ops[p].path \in DOMAIN before[p])
        => store = put(before[p], FileRecord(ops[p].path, Flatten(ops[p].src.items)), ops[p].path)

\* C23: whatever operations have run, every stored record is stored under
\* the key that is its name (so no two records have one name), is of type
\* file, and has a size equal to the length of its payload.
C23_StoreWellFormed ==
    \A k \in DOMAIN store :
        /\ store[k].name = k
        /\ store[k].type = M_FILE
        /\ store[k].size = Len(store[k].bytes)

\* Two records are stored, one of them with a payload, after a remove that
\* deleted a third.
C23_Witness ==
    /\ Cardinality(DOMAIN store) = 2
    /\ \E k \in DOMAIN store : store[k].bytes # <<>>
    /\ \E p \in Procs :
          /\ ops[p].kind = "remove" /\ ops[p].pc = "done"
          /\ Len(ops[p].deletedFiles) = 1

\* C24: at every step of a remove, also one that a per-file delete has made
\* fail, each file whose delete transaction has completed was stored when
\* remove was called and is stored no more: no deleted record is restored.
C24_NoRollback ==
    \A p \in Procs :
        ops[p].kind = "remove"
        => \A i \in 1..Len(ops[p].deletedFiles) :
              /\ ops[p].deletedFiles[i] \in DOMAIN before[p]
              /\ ops[p].deletedFiles[i] \notin DOMAIN store

\* A remove that is not quiet deleted a/a, and the delete of a/B/a, visited
\* next, failed and left it stored: the callbacks are over, a/a is gone.
C24_Witness ==
    \E p \in Procs :
        /\ ops[p].kind = "remove" /\ ~ops[p].quiet /\ ops[p].pc = "done"
        /\ ops[p].deletedFiles = <<P_aSa>> /\ Len(ops[p].deleteErrors) = 1
        /\ P_aSa \notin DOMAIN store /\ P_aSBSa \in DOMAIN store

\* A list, or the enumeration of a remove, whose scan failed: the getAll
\* request ended in error, or the scan could not be started because
\* db.transaction or getAll threw; no entry has been visited.
scanFailed(o) ==
    /\ o.kind \in {"list", "remove"} /\ o.pc = "done"
    /\ o.fault = "scan" \/ (o.fault = "throw" /\ o.file = Null)

\* C25: a list or a remove whose scan failed has rejected with a store error
\* (a MobilettoError), has resolved with no entries, has called the visitor
\* for no entry, and has left the store as it was.
C25_ScanFailureFails ==
    \A p \in Procs :
        scanFailed(ops[p])
        => /\ ops[p].outcome = "rejected"
           /\ ops[p].value.error = "MobilettoError"
           /\ ops[p].file = Null /\ ops[p].deletedFiles = <<>>
           /\ store = before[p]

\* C26: whatever an operation has rejected with is an error of the driver's
\* own kinds (a MobilettoError or a MobilettoNotFoundError), also when the
\* session could not be acquired: never an engine event, an exception of the
\* engine or a bare string.
C26_ErrorsAreTyped ==
    \A p \in Procs :
        ops[p].outcome = "rejected"
        => ops[p].value.error \in {"MobilettoError", "MobilettoNotFoundError"}

\* Whether the arguments the factory was called with lack the key or the
\* engine handle.
lacking(s) == falsy(s.key) \/ s.opts = Null \/ falsy(s.opts.indexedDB)

\* C27: once the factory has been called, with an empty or missing key or
\* without the engine handle it has thrown a MobilettoError and
\* indexedDB.open has not been called, then or later; with both it has
\* returned a client, whose constructor called indexedDB.open once.
C27_FactoryFailsFast ==
    session.phase # "new"
    => IF lacking(session)
       THEN /\ session.phase = "thrown" /\ session.reason.error = "MobilettoError"
            /\ session.opens = 0
            /\ \A p \in Procs : ops[p].kind = "idle"
       ELSE session.phase # "thrown" /\ session.opens = 1

\* The factory has thrown for a key that is given and an opts object that
\* has no engine handle.
C27_Witness ==
    /\ session.phase = "thrown" /\ session.opens = 0
    /\ session.key = Str(<<"k">>) /\ session.opts = Opts(Null)

\* C28: at every step of a remove, the delete transactions it has opened are
\* those of the first files of its enumeration, in the enumeration's order,
\* which is ascending by name; all of them but at most the last are over, and
\* while the next one is about to be opened all of them are.
C28_DeletesOneAtATime ==
    \A p \in Procs :
        ops[p].kind = "remove"
        => LET v == ops[p].visited
               all == toVisit(getAll(before[p]), ops[p].path, ops[p].recursive)
           IN /\ Len(v) - ops[p].closed \in {0, 1}
              /\ ops[p].pc = "vopen" => Len(v) = ops[p].closed
              /\ Len(v) <= Len(all)
              /\ \A i \in 1..Len(v) : v[i] = all[i].name
              /\ \A i, j \in 1..Len(v) : i < j => localeCompare(v[i], v[j]) < 0

\* A quiet remove of a/a and a/B/a: the transaction of a/a has failed and
\* that of a/B/a, opened after it, is open.
C28_Witness ==
    \E p \in Procs :
        /\ ops[p].kind = "remove" /\ ops[p].quiet
        /\ ops[p].visited = <<P_aSa, P_aSBSa>> /\ ops[p].closed = 1
        /\ P_aSa \in DOMAIN store
        /\ tx = [kind |-> "delete", owner |-> p]

\* C29: the entries a list has called its visitor with are stored records
\* of type file, each called with once, and each call but the last has
\* returned; once list has resolved every call has returned and the calls
\* are the file entries of the result in the result's order, which is the
\* record at the path alone when that record exists and recursive is false.
C29_VisitorProtocol ==
    \A p \in Procs :
        (ops[p].kind = "list" /\ ops[p].visitor = "user")
        => LET c == ops[p].calls
               r == ops[p].value.ok
           IN /\ \A i \in 1..Len(c) : c[i].type = M_FILE /\ c[i] = store[c[i].name]
              /\ \A i, j \in 1..Len(c) : c[i] = c[j] => i = j
              /\ ops[p].returned \in {Len(c) - 1, Len(c)}
              /\ ops[p].outcome = "resolved"
                 => /\ ops[p].returned = Len(c)
                    /\ c = SelectIdx(r, {i \in 1..Len(r) : r[i].type = M_FILE}, 1)
                    /\ (ops[p].path \in DOMAIN store /\ ~ops[p].recursive)
                       => c = <<store[ops[p].path]>>

\* list("", recursive=false) with a visitor on a store holding a/a, aB and
\* B: the directory a was not visited, aB and B were, in that order.
C29_Witness ==
    \E p \in Procs :
        /\ ops[p].kind = "list" /\ ops[p].visitor = "user" /\ ops[p].outcome = "resolved"
        /\ DOMAIN store = {P_aSa, P_aB, P_B}
        /\ ops[p].value = Ok(<<[type |-> M_DIR, name |-> P_a], store[P_aB], store[P_B]>>)
        /\ ops[p].calls = <<store[P_aB], store[P_B]>> /\ ops[p].returned = 2

\* C30: a read of a stored record with a non-empty payload, which the engine
\* does not fail, calls nothing and stays pending until its request has
\* succeeded; then it has called callback once, with the whole payload, and
\* after it endCallback once if it was given one, and it is still pending
\* while its transaction is open; once the transaction has completed it has
\* resolved with the length of the buffer it passed to callback.
C30_ReadCallbackOrder ==
    \A p \in Procs :
        (/\ ops[p].kind = "read" /\ ops[p].fault = "none"
         /\ ops[p].path \in DOMAIN store /\ store[ops[p].path].bytes # <<>>)
        => /\ ops[p].pc \in {"mdb", "open", "request"}
              => ops[p].trace = <<>> /\ ops[p].chunks = <<>> /\ ops[p].outcome = "pending"
           /\ ops[p].pc \in {"tx", "done"}
              => /\ ops[p].trace = callbacks(ops[p])
                 /\ ops[p].chunks = <<store[ops[p].path].bytes>>
                 /\ ops[p].ends = IF ops[p].endCallback THEN 1 ELSE 0
           /\ ops[p].pc = "tx" => ops[p].outcome = "pending"
           /\ ops[p].pc = "done"
              => ops[p].outcome = "resolved" /\ ops[p].value = Ok(Len(ops[p].chunks[1]))

\* read("a", callback, endCallback) of a record of two bytes has resolved.
C30_Witness ==
    \E p \in Procs :
        /\ ops[p].kind = "read" /\ ops[p].fault = "none" /\ ops[p].pc = "done"
        /\ ops[p].path = P_a /\ P_a \in DOMAIN store /\ store[P_a].bytes = <<1, 2>>
        /\ ops[p].trace = <<"callback", "endCallback">>
        /\ ops[p].outcome = "resolved" /\ ops[p].value = Ok(2)

\* The chunks write has taken from its source so far, concatenated.
consumed(o) == Flatten(SubSeq(o.src.items, 1, o.pos))

\* What holds at every step of a write from a pull-style source that the
\* engine does not fail: until the loop is left and the transaction opened
\* the store is as it was; the object put is the chunks consumed, in pull
\* order; and the store differs from what it was by that one record at most.
pullWriteSafe(p) ==
    (ops[p].kind = "write" /\ ops[p].src.style = "pull" /\ ops[p].fault = "none")
    => /\ ops[p].bytes = consumed(ops[p])
       /\ ops[p].pc \in {"mdb", "aggregate", "open", "request", "tx"} => store = before[p]
       /\ ops[p].pc = "aggregate" => ops[p].nullCount <= NullLimit
       /\ ops[p].pc = "done"
          => store = put(before[p], FileRecord(ops[p].path, consumed(ops[p])), ops[p].path)

\* C31: the aggregation loop of a write from a finite pull-style source is
\* left; and the write puts one record, in one transaction opened after the
\* loop is left, whose payload is the chunks it consumed, in pull order.
C31_PullWriteTerminates ==
    /\ [](\A p \in Solo : pullWriteSafe(p))
    /\ \A p \in Solo :
          (ops[p].kind = "write" /\ ops[p].src.style = "pull" /\ ops[p].pc = "aggregate")
          ~> (ops[p].pc # "aggregate")

\* A write from a generator that yields an empty value and then one chunk
\* has left its loop on the count of empty yields and has stored the chunk.
C31_Witness ==
    \E p \in Solo :
        /\ ops[p].kind = "write" /\ ops[p].src.style = "pull" /\ ops[p].pc = "done"
        /\ ops[p].fault = "none" /\ ops[p].nullCount > NullLimit - 1
        /\ Len(ops[p].src.items) = 2 /\ ops[p].src.items[1] = Nil
        /\ store[ops[p].path].bytes = <<1>>

\* C32: once two writes to one path, running at the same time, have both
\* resolved, the record at the path is the whole of what one of them was
\* given (payload and size), and never a mixture of their chunks.
C32_ConcurrentWritesAtomic ==
    (/\ \A p \in Procs : ops[p].kind = "write" /\ ops[p].pc = "done" /\ ops[p].outcome = "resolved"
     /\ \A p, q \in Procs : ops[p].path = ops[q].path)
    => \E p \in Procs :
          /\ ops[p].path \in DOMAIN store
          /\ store[ops[p].path] = FileRecord(ops[p].path, Flatten(ops[p].src.items))

\* The paths a remove has recorded as deleted.
deleted(p) == {ops[p].deletedFiles[i] : i \in 1..Len(ops[p].deletedFiles)}

\* C33: at every step of two removes that run at the same time, no path has
\* been recorded as deleted by both, so none is in the results of both.
C33_DeletedByOne ==
    \A p, q \in Procs :
        (p # q /\ ops[p].kind = "remove" /\ ops[q].kind = "remove")
        => deleted(p) \cap deleted(q) = {}

\* One remove has deleted a/a; the other, a quiet one that had enumerated
\* a/a too, found it gone in its own transaction and went on to delete a/B/a.
C33_Witness ==
    \E p, q \in Procs :
        /\ p # q /\ ops[p].kind = "remove" /\ ops[q].kind = "remove" /\ ops[q].quiet
        /\ ops[p].deletedFiles = <<P_aSa>>
        /\ ops[q].visited = <<P_aSa, P_aSBSa>> /\ ops[q].deletedFiles = <<P_aSBSa>>
        /\ ops[p].pc = "done" /\ ops[q].pc = "done"

\* C34: whatever the order in which a remove and a write run, once the scan
\* of the remove has succeeded every path it records as deleted is in the
\* scan's result, and the record of a write that has been committed to a key
\* the scan did not return is stored, also once the remove is over.
C34_RemoveKeepsNewKeys ==
    \A r, w \in Procs :
        (/\ ops[r].kind = "remove" /\ ops[r].pc \notin {"mdb", "open", "request"}
         /\ ops[w].kind = "write")
        => /\ deleted(r) \subseteq namesOf(ops[r].scan)
           /\ (/\ ops[w].pc = "done" /\ ops[w].outcome = "resolved" /\ ops[w].fault = "none"
               /\ ops[w].path \notin namesOf(ops[r].scan))
              => /\ ops[w].path \in DOMAIN store
                 /\ store[ops[w].path] = FileRecord(ops[w].path, ops[w].bytes)

\* remove("a/", recursive) has scanned a store holding a/a and a/B/a and has
\* deleted both; the write of a/B, committed after the scan, is stored.
C34_Witness ==
    \E r, w \in Procs :
        /\ ops[r].kind = "remove" /\ ops[r].path = P_aS /\ ops[r].recursive
        /\ ops[r].pc = "done" /\ ops[r].outcome = "resolved"
        /\ ops[r].deletedFiles = <<P_aSa, P_aSBSa>>
        /\ ops[w].kind = "write" /\ ops[w].path = P_aSB /\ ops[w].pc = "done"
        /\ DOMAIN store = {P_aSB}

\* C35: at every step of a remove with recursive=false the records still
\* stored are as they were, and the records gone are the record at the path
\* alone if one was stored there, and otherwise files directly below the
\* path, none of them nested deeper; and a remove, quiet or not, whose
\* enumeration holds directory entries only resolves with an empty result
\* and leaves the store as it was.
C35_NonRecursiveScope ==
    \A p \in Procs :
        (ops[p].kind = "remove" /\ ~ops[p].recursive)
        => LET gone == DOMAIN before[p] \ DOMAIN store
               pth == ops[p].path
               r == listResult(getAll(before[p]), pth, FALSE)
           IN /\ \A k \in DOMAIN store : k \in DOMAIN before[p] /\ store[k] = before[p][k]
              /\ IF pth \in DOMAIN before[p] THEN gone \subseteq {pth}
                 ELSE \A n \in gone : n \in under(before[p], pth) /\ isDirect(n, pth)
              /\ (/\ ops[p].pc = "done" /\ ops[p].fault = "none"
                  /\ r # <<>> /\ \A i \in 1..Len(r) : r[i].type = M_DIR)
                 => /\ ops[p].outcome = "resolved" /\ ops[p].value = Ok(<<>>)
                    /\ store = before[p]

\* remove("a", recursive=false) on a store holding a/a and a/B/a has deleted
\* a/a and has left a/B/a stored.
C35_Witness ==
    \E p \in Procs :
        /\ ops[p].kind = "remove" /\ ~ops[p].recursive /\ ops[p].path = P_a
        /\ ops[p].pc = "done" /\ ops[p].outcome = "resolved" /\ ops[p].value = Ok(P_aSa)
        /\ DOMAIN before[p] = {P_aSa, P_aSBSa} /\ DOMAIN store = {P_aSBSa}

\* C36: a remove with quiet=false records at most one error; once it has
\* recorded one it has stopped, the failing file is the last one a delete
\* transaction was opened for, the files before it in sorted order were
\* deleted, and the failing file and every file after it are stored as they
\* were, with no transaction opened for the later ones; and a remove that
\* stopped with a file visited but not deleted has recorded exactly one error.
C36_StopsAtFirstFailure ==
    \A p \in Procs :
        (ops[p].kind = "remove" /\ ~ops[p].quiet)
        => LET o == ops[p]
               q == toVisit(o.scan, o.path, o.recursive)
               k == Len(o.visited)
           IN /\ Len(o.deleteErrors) <= 1
              /\ (o.pc = "done" /\ k > Len(o.deletedFiles)) => Len(o.deleteErrors) = 1
              /\ Len(o.deleteErrors) = 1
                 => /\ o.pc = "done" /\ k >= 1 /\ k <= Len(q)
                    /\ Len(o.calls) = k /\ o.closed = k
                    /\ o.deletedFiles = [i \in 1..(k - 1) |-> q[i].name]
                    /\ \A i \in 1..k : o.visited[i] = q[i].name
                    /\ \A i \in k..Len(q) :
                          /\ q[i].name \in DOMAIN store
                          /\ store[q[i].name] = before[p][q[i].name]

\* A remove with quiet=false of three files has deleted the first, has failed
\* on the second and has left the third alone.
C36_Witness ==
    \E p \in Procs :
        /\ ops[p].kind = "remove" /\ ~ops[p].quiet /\ ops[p].pc = "done"
        /\ Len(toVisit(ops[p].scan, ops[p].path, ops[p].recursive)) = 3
        /\ Len(ops[p].visited) = 2 /\ Len(ops[p].deletedFiles) = 1
        /\ Len(ops[p].deleteErrors) = 1
        /\ Cardinality(DOMAIN store) = 2

\* C37: from the call of a list, a metadata or a read to its end the store
\* is what it was at the call; a metadata that resolved has left the record
\* at its path stored with its whole payload, and a read that resolved has
\* delivered the payload the record had when read was called.
C37_ReadersLeaveStore ==
    \A p \in Procs :
        ops[p].kind \in {"list", "metadata", "read"}
        => /\ store = before[p]
           /\ (ops[p].kind = "metadata" /\ ops[p].outcome = "resolved")
              => /\ ops[p].path \in DOMAIN store
                 /\ "bytes" \in DOMAIN store[ops[p].path]
                 /\ Len(store[ops[p].path].bytes) = ops[p].value.ok.size
           /\ (ops[p].kind = "read" /\ ops[p].outcome = "resolved")
              => /\ ops[p].path \in DOMAIN store
                 /\ ops[p].chunks = <<Buffer_from(before[p][ops[p].path].bytes)>>

\* A metadata has resolved on a record with a non-empty payload.
C37_Witness ==
    \E p \in Procs :
        /\ ops[p].kind = "metadata" /\ ops[p].pc = "done" /\ ops[p].outcome = "resolved"
        /\ ops[p].path \in DOMAIN store
        /\ Len(store[ops[p].path].bytes) > 0

\* C38: a metadata is pending until its transaction is over; it rejects
\* with NotFoundError(p) only when no record is stored at p; and a metadata
\* the engine did not fail rejects with NotFoundError(p) when no record is
\* stored at p and otherwise resolves with the size of the stored payload,
\* 0 for an empty one.
C38_MetadataNotFound ==
    \A p \in Procs :
        ops[p].kind = "metadata"
        => /\ ops[p].pc # "done" => ops[p].outcome = "pending"
           /\ (ops[p].outcome = "rejected" /\ ops[p].value = NotFound(ops[p].path))
              => ops[p].path \notin DOMAIN store
           /\ (ops[p].pc = "done" /\ ops[p].fault = "none")
              => IF ops[p].path \in DOMAIN store
                 THEN /\ ops[p].outcome = "resolved"
                      /\ ops[p].value.ok.size = Len(store[ops[p].path].bytes)
                 ELSE /\ ops[p].outcome = "rejected"
                      /\ ops[p].value = NotFound(ops[p].path)

\* metadata("a") has resolved with size 0 on a record with an empty payload.
C38_Witness ==
    \E p \in Procs :
        /\ ops[p].kind = "metadata" /\ ops[p].pc = "done" /\ ops[p].path = P_a
        /\ P_a \in DOMAIN store /\ store[P_a].bytes = <<>>
        /\ ops[p].outcome = "resolved" /\ ops[p].value.ok.size = 0

\* C39: a deleteVisitor called with an entry that is not a file opens no
\* transaction and issues no request, leaves the store as it was, and has
\* settled: resolved with no error recorded when quiet, otherwise rejected
\* with the one not-a-file error it recorded.
C39_NotAFileRejectsUpFront ==
    \A p \in Procs :
        (ops[p].kind = "deleteVisitor" /\ ops[p].file.type # M_FILE)
        => /\ ops[p].visited = <<>>
           /\ tx = NoTx
           /\ store = before[p]
           /\ IF ops[p].quiet
              THEN /\ ops[p].outcome = "resolved" /\ ops[p].value = Ok(TRUE)
                   /\ ops[p].deleteErrors = <<>>
              ELSE /\ ops[p].outcome = "rejected"
                   /\ ops[p].value = Err("MobilettoError", "not a file")
                   /\ ops[p].deleteErrors = <<ops[p].value>>

====
